---- MODULE Spec2Model ----
(***************************************************************************)
(* Model of src/main.py: create_waveform and generate_music.               *)
(*                                                                         *)
(* Times (durations, current_time, total_duration_seconds) are Python      *)
(* floats.  They are modelled exactly: a float is a sign and a magnitude   *)
(* held as a little-endian sequence of limbs, in units of 2^-56 second,    *)
(* and every arithmetic operation computes the exact result and rounds it  *)
(* to 53 significant bits, ties to even, as IEEE-754 binary64 does.        *)
(* Sample amplitudes are modelled in fixed point (see AMP).                *)
(***************************************************************************)
EXTENDS Integers, Sequences, FiniteSets, TLC

(***************************************************************************)
(* Bounds of the model.                                                    *)
(***************************************************************************)
\* The model keeps the first MaxSamples samples of every sample array
\* (together with the array's true length).
MaxSamples == 4

(***************************************************************************)
(* Python float (IEEE-754 binary64) arithmetic.                            *)
(***************************************************************************)
\* prec: significant bits; base: limb base 2^bits; limbs: limbs of a
\* magnitude; frac: limbs below the binary point (unit 2^-56).
F64 == [prec |-> 53, bits |-> 14, base |-> 16384, limbs |-> 6, frac |-> 4]

MagZero == [i \in 1..F64.limbs |-> 0]

MagAdd(a, b) ==
    LET RECURSIVE go(_, _)
        go(i, c) == IF i > F64.limbs THEN <<>>
                    ELSE LET s == a[i] + b[i] + c
                         IN  <<s % F64.base>> \o go(i + 1, s \div F64.base)
    IN  go(1, 0)

\* a - b for a >= b
MagSub(a, b) ==
    LET RECURSIVE go(_, _)
        go(i, bw) == IF i > F64.limbs THEN <<>>
                     ELSE LET d == a[i] - b[i] - bw
                          IN  IF d < 0 THEN <<d + F64.base>> \o go(i + 1, 1)
                                       ELSE <<d>> \o go(i + 1, 0)
    IN  go(1, 0)

\* -1, 0, 1 as a < b, a = b, a > b
MagCmp(a, b) ==
    LET RECURSIVE go(_)
        go(i) == IF i = 0 THEN 0
                 ELSE IF a[i] > b[i] THEN 1
                 ELSE IF a[i] < b[i] THEN -1
                 ELSE go(i - 1)
    IN  go(F64.limbs)

\* a * k for 0 <= k < 2^16
MagMulSmall(a, k) ==
    LET RECURSIVE go(_, _)
        go(i, c) == IF i > F64.limbs THEN <<>>
                    ELSE LET p == a[i] * k + c
                         IN  <<p % F64.base>> \o go(i + 1, p \div F64.base)
    IN  go(1, 0)

\* quotient and remainder of a by k, 0 < k < 2^17
MagDivSmall(a, k) ==
    LET RECURSIVE go(_, _)
        go(i, r) == IF i = 0 THEN [q |-> <<>>, r |-> r]
                    ELSE LET cur  == r * F64.base + a[i]
                             rest == go(i - 1, cur % k)
                         IN  [q |-> rest.q \o <<cur \div k>>, r |-> rest.r]
    IN  go(F64.limbs, 0)

IntBitLen(n) ==
    LET RECURSIVE go(_)
        go(m) == IF m = 0 THEN 0 ELSE 1 + go(m \div 2)
    IN  go(n)

\* number of significant bits of a
MagBitLen(a) ==
    LET RECURSIVE go(_)
        go(i) == IF i = 0 THEN 0
                 ELSE IF a[i] # 0 THEN (i - 1) * F64.bits + IntBitLen(a[i])
                 ELSE go(i - 1)
    IN  go(F64.limbs)

MagPow2(s) ==
    [i \in 1..F64.limbs |-> IF i = (s \div F64.bits) + 1 THEN 2 ^ (s % F64.bits) ELSE 0]

\* a mod 2^s
MagLowBits(a, s) ==
    [i \in 1..F64.limbs |->
        IF i < (s \div F64.bits) + 1 THEN a[i]
        ELSE IF i = (s \div F64.bits) + 1 THEN a[i] % (2 ^ (s % F64.bits))
        ELSE 0]

MagBit(a, s) == (a[(s \div F64.bits) + 1] \div (2 ^ (s % F64.bits))) % 2

\* The exact magnitude a (plus a nonzero tail below its last bit when sticky)
\* rounded to F64.prec significant bits, ties to even.
MagRound(a, sticky) ==
    LET s == MagBitLen(a) - F64.prec
    IN  IF s <= 0 THEN a
        ELSE LET low  == MagLowBits(a, s)
                 base == MagSub(a, low)
                 c    == MagCmp(low, MagPow2(s - 1))
                 up   == c > 0 \/ (c = 0 /\ (sticky \/ MagBit(a, s) = 1))
             IN  IF up THEN MagAdd(base, MagPow2(s)) ELSE base

FZero == [neg |-> FALSE, mag |-> MagZero]

FMake(neg, mag) == IF mag = MagZero THEN FZero ELSE [neg |-> neg, mag |-> mag]

\* the float of the integer n, |n| < 2^28
FInt(n) ==
    LET m == IF n < 0 THEN -n ELSE n
    IN  FMake(n < 0, [i \in 1..F64.limbs |->
                        IF i = F64.frac + 1 THEN m % F64.base
                        ELSE IF i = F64.frac + 2 THEN m \div F64.base
                        ELSE 0])

FNeg(x) == FMake(~x.neg, x.mag)

\* x + y
FAdd(x, y) ==
    IF x.neg = y.neg
    THEN FMake(x.neg, MagRound(MagAdd(x.mag, y.mag), FALSE))
    ELSE LET c == MagCmp(x.mag, y.mag)
         IN  IF c = 0 THEN FZero
             ELSE IF c > 0 THEN FMake(x.neg, MagRound(MagSub(x.mag, y.mag), FALSE))
             ELSE FMake(y.neg, MagRound(MagSub(y.mag, x.mag), FALSE))

\* x - y
FSub(x, y) == FAdd(x, FNeg(y))

\* x < y
FLt(x, y) ==
    IF x.neg # y.neg THEN x.neg
    ELSE IF x.neg THEN MagCmp(x.mag, y.mag) > 0
    ELSE MagCmp(x.mag, y.mag) < 0

\* x > y
FGt(x, y) == FLt(y, x)

\* x * k / d for integers 0 <= k < 2^16, 0 < d < 2^17
FScale(x, k, d) ==
    LET qr == MagDivSmall(MagMulSmall(x.mag, k), d)
    IN  FMake(x.neg, MagRound(qr.q, qr.r # 0))

\* int(x): truncation toward zero
FTrunc(x) ==
    LET n == x.mag[F64.frac + 1] + x.mag[F64.frac + 2] * F64.base
    IN  IF x.neg THEN -n ELSE n

\* round(x): to the nearest integer, ties to even
FRoundInt(x) ==
    LET n    == x.mag[F64.frac + 1] + x.mag[F64.frac + 2] * F64.base
        low  == MagLowBits(x.mag, F64.frac * F64.bits)
        c    == MagCmp(low, MagPow2(F64.frac * F64.bits - 1))
        r    == IF c > 0 \/ (c = 0 /\ n % 2 = 1) THEN n + 1 ELSE n
    IN  IF x.neg THEN -r ELSE r

(***************************************************************************)
(* Note, chord and mood definitions (lines 6-34).  Frequencies are in      *)
(* hundredths of a hertz.                                                  *)
(***************************************************************************)
NOTES ==
    [C3 |-> 13081, D3 |-> 14683, E3 |-> 16481, F3 |-> 17461, G3 |-> 19600,
     A3 |-> 22000, B3 |-> 24694,
     C4 |-> 26163, D4 |-> 29366, Eb4 |-> 31113, E4 |-> 32963, F4 |-> 34923,
     G4 |-> 39200, Ab4 |-> 41530, A4 |-> 44000, B4 |-> 49388,
     C5 |-> 52325, D5 |-> 58733, E5 |-> 65925, G5 |-> 78399]

REST == "REST"

MOODS ==
    [happy |->
        [scale  |-> <<"C4", "D4", "E4", "F4", "G4", "A4", "B4", "C5">>,
         chords |-> << <<"C4", "E4", "G4">>, <<"G4", "B4", "D5">>,
                       <<"A4", "C5", "E5">>, <<"F4", "A4", "C5">> >>,
         bpm    |-> 120],
     sad |->
        [scale  |-> <<"C4", "Eb4", "F4", "G4", "Ab4", "C5">>,
         chords |-> << <<"C4", "Eb4", "G4">>, <<"Ab4", "C5", "Eb4">>,
                       <<"F3", "Ab3", "C4">>, <<"G3", "A3", "D4">> >>,
         bpm    |-> 75],
     dreamy |->
        [scale  |-> <<"C4", "E4", "G4", "A4", "C5", "E5", "G5">>,
         chords |-> << <<"C4", "E4", "G4", "B4">>, <<"A3", "C4", "E4", "G4">> >>,
         bpm    |-> 60]]

(***************************************************************************)
(* Fixed-point sample arithmetic.  sin and exp are integer approximations  *)
(* (Bhaskara's formula; a cubic reciprocal raised to the 4th power): exact *)
(* in sign and at zero, within a few thousandths elsewhere.                *)
(***************************************************************************)
\* wave: units per 1.0 of a waveform sample; mix: units per 1.0 of a sample
\* of the track; half: phase units per half cycle, a phase unit being one
\* hundredth of a hertz times 2^-24 second.
AMP == [wave |-> 1000, mix |-> 10000, half |-> 1677721600]

Min(a, b) == IF a < b THEN a ELSE b
Max(a, b) == IF a > b THEN a ELSE b
Abs(a) == IF a < 0 THEN -a ELSE a
\* a / b truncated toward zero, b > 0
TDiv(a, b) == IF a < 0 THEN -((-a) \div b) ELSE a \div b

\* 1000 * sin(pi * p / AMP.half) for a phase p >= 0 below two half cycles
SinPos(p) ==
    LET a == (p % AMP.half) \div 1677722
        v == (16 * a * (1000 - a)) \div (5000 - (4 * a * (1000 - a)) \div 1000)
    IN  IF p < AMP.half THEN v ELSE -v

\* np.sin at phase p (either sign)
Sin(p) == IF p < 0 THEN -SinPos(-p) ELSE SinPos(p)

\* np.sign(np.sin(.)) at phase p
SignSin(p) ==
    IF p = 0 \/ Abs(p) = AMP.half THEN 0
    ELSE IF (p > 0) = (Abs(p) < AMP.half) THEN 1 ELSE -1

\* 1000 * exp(-5 * i / (n - 1)): element i of np.exp(np.linspace(0., -5., n))
Envelope(i, n) ==
    IF n <= 1 THEN 1000
    ELSE LET h  == ((5000 * i) \div (n - 1)) \div 4
             d  == 1000 + h + (h * h) \div 2000 + (((h * h) \div 1000) * h) \div 6000
             g  == 1000000 \div d
             g2 == (g * g) \div 1000
         IN  (g2 * g2) \div 1000

\* The instrument recipes, in 1/10000, at the phase ph of half the frequency
\* (ph: f/2, 2 ph: f, 4 ph: 2f, 6 ph: 3f).
Recipe(instrument, ph) ==
    IF instrument = "piano"
    THEN 6 * Sin(2 * ph) + 2 * Sin(4 * ph) + 1 * Sin(6 * ph)
    ELSE IF instrument = "organ"
    THEN 5 * Sin(ph) + 5 * Sin(2 * ph) + 3 * Sin(4 * ph)
    ELSE IF instrument = "retro_synth"
    THEN 10000 * SignSin(2 * ph)
    ELSE 6 * Sin(2 * ph) + 2 * Sin(4 * ph)

\* line 38 rounding to the nearest integer
NumSamples_rounded(duration, sample_rate) ==
    FRoundInt(FScale(duration, sample_rate, 1))

\* int(sample_rate * duration)
NumSamples(duration, sample_rate) == FTrunc(FScale(duration, sample_rate, 1))

\* create_waveform: raised (np.linspace refuses a negative count), len (the
\* length of the returned array) and data (its first MaxSamples samples, in
\* 1/AMP.wave).
create_waveform(frequency, duration, sample_rate, instrument) ==
    LET n == NumSamples(duration, sample_rate)
    IN  IF n < 0 THEN [raised |-> TRUE, len |-> 0, data |-> <<>>]
        ELSE IF n = 0 THEN [raised |-> FALSE, len |-> 0, data |-> <<>>]
        ELSE LET step   == FScale(duration, 1, n)
                 \* the step of np.linspace in units of 2^-24 second
                 step24 == (step.mag[3] + step.mag[4] * F64.base) \div 16
                 ph(i)  == frequency * i * step24
                 s(i)   == TDiv(Recipe(instrument, ph(i)) * Envelope(i, n), 10000)
             IN  [raised |-> FALSE, len |-> n,
                  data |-> [j \in 1..Min(n, MaxSamples) |-> s(j - 1)]]

(***************************************************************************)
(* generate_music (lines 61-120), one action per step of the function.     *)
(***************************************************************************)
VARIABLES
    mood_key, instrument, total_duration_seconds,   \* the arguments
    rng_notes, rng_rhythms,  \* the notes and the rhythms (1..3) that the
                             \* random source returns in this run
    pc, error,               \* position in generate_music; the exception raised
    quarter_note_duration, melody_sequence, current_time,
    final_track_data,        \* numerators of the first MaxSamples samples
    track_len,               \* len(final_track_data)
    track_den,               \* denominator of the samples
    current_pos_samples, chord_index,
    item,                    \* index of the next item of melody_sequence
    scaled_data, written,
    wf_args, wf_result       \* a direct call of create_waveform

args  == <<mood_key, instrument, total_duration_seconds, rng_notes, rng_rhythms>>
plan  == <<quarter_note_duration, melody_sequence, current_time>>
track == <<final_track_data, track_len, track_den>>
mixer == <<current_pos_samples, chord_index, item>>
sink  == <<scaled_data, written>>
call  == <<wf_args, wf_result>>
vars  == <<args, pc, error, plan, track, mixer, sink, call>>

sample_rate == 44100

\* rhythms = [quarter, quarter / 2, quarter * 1.5]
Rhythms(q) == <<q, FScale(q, 1, 2), FScale(q, 3, 2)>>

\* the clipping of lines 75-76 left out
ClipDuration_unclipped(now, d, total) == d

\* lines 75-76: the rhythm d clipped to what is left of the total
ClipDuration(now, d, total) ==
    IF FGt(FAdd(now, d), total) THEN FSub(total, now) ELSE d

\* line 73 with <= for <
PlanContinues_inclusive(now, total) == ~FGt(now, total)

\* line 73: while current_time < total_duration_seconds
PlanContinues(now, total) == FLt(now, total)

\* int((quarter_note_duration * 4) * sample_rate)
BarSamples(q) == FTrunc(FScale(FScale(q, 4, 1), sample_rate, 1))

\* line 106 advancing only when the cursor lands on a bar boundary
ChordAdvances_landed(pos, bar, duration_samples) == pos % bar = 0

\* line 106: the cursor crossed or landed on a bar boundary during the event
ChordAdvances(pos, bar, duration_samples) == pos % bar < duration_samples

\* np.max(np.abs(.)) of a nonempty array
Peak(data) ==
    LET RECURSIVE go(_)
        go(j) == IF j = 0 THEN 0 ELSE Max(Abs(data[j]), go(j - 1))
    IN  go(Len(data))

\* line 111 normalizing only a buffer that exceeds 1.0
Normalizes_clipping(max_amp) == max_amp > AMP.mix

\* line 111: the buffer is divided by max_amp when max_amp > 0
Normalizes(max_amp) == max_amp > 0

\* line 114 scaling by 2^15
Scaled_32768(num, den) == TDiv(num * 32768, den)

\* line 114: one sample times 32767, before the conversion to int16
Scaled(num, den) == TDiv(num * 32767, den)

\* astype(np.int16): truncated, and wrapped when out of range
ToInt16(v) == ((v + 32768) % 65536) - 32768

\* line 63 falling back to a default mood
LookupMood_default(key) ==
    [found |-> TRUE,
     mood  |-> IF key \in DOMAIN MOODS THEN MOODS[key] ELSE MOODS["happy"]]

\* line 63: mood = MOODS[mood_key]
LookupMood(key) ==
    IF key \in DOMAIN MOODS THEN [found |-> TRUE, mood |-> MOODS[key]]
    ELSE [found |-> FALSE, mood |-> <<>>]

\* lines 63-72
Setup ==
    /\ pc = "setup"
    /\ IF ~LookupMood(mood_key).found
       THEN /\ pc' = "raised"
            /\ error' = "KeyError"
            /\ UNCHANGED plan
       ELSE /\ quarter_note_duration' = FScale(FInt(60), 1, LookupMood(mood_key).mood.bpm)
            /\ melody_sequence' = <<>>
            /\ current_time' = FZero
            /\ pc' = "plan"
            /\ UNCHANGED error
    /\ UNCHANGED <<args, track, mixer, sink, call>>

\* lines 73-79: one iteration of the planning loop
PlanStep ==
    /\ pc = "plan"
    /\ PlanContinues(current_time, total_duration_seconds)
    /\ \E r \in rng_rhythms :
       \E n \in 1..(Len(LookupMood(mood_key).mood.scale) + 1) :
          LET scale       == LookupMood(mood_key).mood.scale \o <<REST>>
              melody_note == scale[n]
              duration    == ClipDuration(current_time,
                                          Rhythms(quarter_note_duration)[r],
                                          total_duration_seconds)
          IN  /\ melody_note \in rng_notes
              /\ melody_sequence' = Append(melody_sequence,
                                           [note |-> melody_note, duration |-> duration])
              /\ current_time' = FAdd(current_time, duration)
    /\ UNCHANGED <<args, pc, error, quarter_note_duration, track, mixer, sink, call>>

\* line 73 (loop exit) and lines 82-86
Allocate ==
    /\ pc = "plan"
    /\ ~PlanContinues(current_time, total_duration_seconds)
    /\ LET n == NumSamples(total_duration_seconds, sample_rate)
       IN  IF n < 0
           THEN /\ pc' = "raised"
                /\ error' = "ValueError"
                /\ UNCHANGED <<track, mixer>>
           ELSE /\ final_track_data' = [j \in 1..Min(n, MaxSamples) |-> 0]
                /\ track_len' = n
                /\ current_pos_samples' = 0
                /\ chord_index' = 0
                /\ item' = 1
                /\ pc' = "mix"
                /\ UNCHANGED <<track_den, error>>
    /\ UNCHANGED <<args, plan, sink, call>>

\* The voices of one event: the melody note unless it is a rest, then the
\* notes of the chord that NOTES knows; each a waveform and its gain in 1/100.
Voices(it, chord) ==
    LET mel == IF it.note # REST
               THEN << [wave |-> create_waveform(NOTES[it.note], it.duration,
                                                 sample_rate, instrument),
                        gain |-> 45] >>
               ELSE <<>>
        RECURSIVE harmony(_)
        harmony(k) ==
            IF k > Len(chord) THEN <<>>
            ELSE (IF chord[k] \in DOMAIN NOTES
                  THEN << [wave |-> create_waveform(NOTES[chord[k]], it.duration,
                                                    sample_rate, "organ"),
                           gain |-> 20] >>
                  ELSE <<>>) \o harmony(k + 1)
    IN  mel \o harmony(1)

\* what the voices add to the sample k (from 1) of the slice, in 1/AMP.mix
VoiceSum(voices, k) ==
    LET RECURSIVE go(_)
        go(v) == IF v = 0 THEN 0
                 ELSE TDiv(voices[v].wave.data[k] * voices[v].gain, 10) + go(v - 1)
    IN  go(Len(voices))

\* lines 87-107: one iteration of the mixing loop
MixEvent ==
    /\ pc = "mix"
    /\ item <= Len(melody_sequence)
    /\ LET it               == melody_sequence[item]
           duration_samples == NumSamples(it.duration, sample_rate)
           chords           == LookupMood(mood_key).mood.chords
           voices           == Voices(it, chords[chord_index + 1])
           \* the length of final_track_data[pos : pos + duration_samples]
           slice == Max(0, Min(track_len, current_pos_samples + duration_samples)
                            - Min(track_len, current_pos_samples))
           pos   == current_pos_samples + duration_samples
       IN  IF voices # <<>> /\ duration_samples # slice /\ duration_samples # 1
           THEN \* operands could not be broadcast together
                /\ pc' = "raised"
                /\ error' = "ValueError"
                /\ UNCHANGED <<final_track_data, mixer>>
           ELSE /\ final_track_data' =
                      [j \in 1..Len(final_track_data) |->
                          IF /\ current_pos_samples < j
                             /\ j <= current_pos_samples + slice
                          THEN final_track_data[j]
                               + VoiceSum(voices, j - current_pos_samples)
                          ELSE final_track_data[j]]
                /\ current_pos_samples' = pos
                /\ chord_index' =
                      IF ChordAdvances(pos, BarSamples(quarter_note_duration),
                                       duration_samples)
                      THEN (chord_index + 1) % Len(chords)
                      ELSE chord_index
                /\ item' = item + 1
                /\ UNCHANGED <<pc, error>>
    /\ UNCHANGED <<args, plan, track_len, track_den, sink, call>>

\* lines 109-112
Normalize ==
    /\ pc = "mix"
    /\ item > Len(melody_sequence)
    /\ IF track_len = 0
       THEN \* np.max of a zero-size array
            /\ pc' = "raised"
            /\ error' = "ValueError"
            /\ UNCHANGED track_den
       ELSE /\ LET max_amp == Peak(final_track_data)
               IN  track_den' = IF Normalizes(max_amp) THEN max_amp ELSE track_den
            /\ pc' = "quantize"
            /\ UNCHANGED error
    /\ UNCHANGED <<args, plan, final_track_data, track_len, mixer, sink, call>>

\* line 114
Quantize ==
    /\ pc = "quantize"
    /\ scaled_data' = [j \in 1..Len(final_track_data) |->
                          ToInt16(Scaled(final_track_data[j], track_den))]
    /\ pc' = "write"
    /\ UNCHANGED <<args, error, plan, track, mixer, written, call>>

\* lines 116-119
WriteFile ==
    /\ pc = "write"
    /\ written' = TRUE
    /\ pc' = "done"
    /\ UNCHANGED <<args, error, plan, track, mixer, scaled_data, call>>

(***************************************************************************)
(* Inputs.                                                                 *)
(***************************************************************************)
Instruments == {"piano", "organ", "retro_synth", "kazoo"}
MoodKeys    == DOMAIN MOODS \cup {"polka"}
AllNotes    == DOMAIN NOTES \cup {REST}

\* k / 65536 second and n / 20 second, as the float nearest to it
Tiny(k)   == FScale(FInt(k), 1, 65536)
Secs20(n) == FScale(FInt(n), 1, 20)

\* Totals of at most MaxSamples samples (zero and negative ones included):
\* the whole track is kept.
TinyTotals ==
    {Tiny(k) : k \in {k \in -2..(2 * MaxSamples) :
                        NumSamples(Tiny(k), sample_rate) <= MaxSamples}}

\* Totals of several beats, in 1/20 second, for each mood.
BeatTotals == [happy |-> {40, 45}, sad |-> {56, 66}, dreamy |-> {80, 90}]

\* Totals of several bars, in 1/20 second, for each mood: more bars than
\* the mood has chords.
BarTotals == [happy |-> {170}, sad |-> {260}, dreamy |-> {170, 180}]

Idle ==
    /\ error = "none"
    /\ quarter_note_duration = FZero
    /\ melody_sequence = <<>>
    /\ current_time = FZero
    /\ final_track_data = <<>>
    /\ track_len = 0
    /\ track_den = AMP.mix
    /\ current_pos_samples = 0
    /\ chord_index = 0
    /\ item = 1
    /\ scaled_data = <<>>
    /\ written = FALSE
    /\ wf_result = <<>>

Init ==
    /\ pc = "setup"
    /\ wf_args = <<>>
    /\ Idle
    /\ \/ /\ mood_key \in MoodKeys
          /\ instrument \in Instruments
          /\ total_duration_seconds \in TinyTotals
          /\ rng_notes = AllNotes
          /\ rng_rhythms = 1..3
       \/ /\ mood_key \in DOMAIN MOODS
          /\ instrument = "piano"
          /\ total_duration_seconds \in {Secs20(n) : n \in BeatTotals[mood_key]}
          /\ rng_notes \in {{"C4"}, {REST}}
          /\ rng_rhythms = 1..3
       \/ /\ mood_key \in DOMAIN MOODS
          /\ instrument = "organ"
          /\ total_duration_seconds \in {Secs20(n) : n \in BarTotals[mood_key]}
          /\ rng_notes = {REST}
          /\ rng_rhythms \in {{1}, {2}, {3}}

Next ==
    \/ Setup
    \/ PlanStep
    \/ Allocate
    \/ MixEvent
    \/ Normalize
    \/ Quantize
    \/ WriteFile

Spec == Init /\ [][Next]_vars

\* generate_music has returned or has raised
Halted == pc \in {"done", "raised"}

\* generate_music runs to its end: no step waits on anything, so a step is
\* taken as long as one can be.  This is weak fairness of Next, with
\* ENABLED <<Next>>_vars written out: some step can be taken in every state
\* but the halted ones.
LiveSpec == Spec /\ ([]<>Halted \/ []<><<Next>>_vars)

(***************************************************************************)
(* create_waveform called on its own.                                      *)
(***************************************************************************)
InitWaveform ==
    /\ pc = "call"
    /\ mood_key = "happy"
    /\ instrument = "piano"
    /\ total_duration_seconds = FZero
    /\ rng_notes = {}
    /\ rng_rhythms = {}
    /\ Idle
    /\ wf_args \in [frequency   : {-44000, 0, 26163, 78399},
                    duration    : {Tiny(k) : k \in -3..(2 * MaxSamples)}
                                      \cup {Secs20(n) : n \in {-1, 5, 8}},
                    sample_rate : {44100, 22050},
                    instrument  : Instruments]

CallWaveform ==
    /\ pc = "call"
    /\ wf_result' = create_waveform(wf_args.frequency, wf_args.duration,
                                    wf_args.sample_rate, wf_args.instrument)
    /\ pc' = "returned"
    /\ UNCHANGED <<args, error, plan, track, mixer, sink, wf_args>>

NextWaveform == CallWaveform

SpecWaveform == InitWaveform /\ [][NextWaveform]_vars

(***************************************************************************)
(* Properties.                                                             *)
(***************************************************************************)
\* the planning loop has run to its end
Planned ==
    \/ pc \in {"mix", "quantize", "write", "done"}
    \/ pc = "raised" /\ mood_key \in DOMAIN MOODS

\* the model keeps the whole track
WholeTrack == track_len = Len(final_track_data)

\* sum(durations), added from the left in floats
DurationSum(seq) ==
    LET RECURSIVE go(_)
        go(k) == IF k = 0 THEN FZero ELSE FAdd(go(k - 1), seq[k].duration)
    IN  go(Len(seq))

IsRhythm(d) == \E r \in 1..3 : d = Rhythms(quarter_note_duration)[r]

\* C1: for a catalog mood and a total d > 0, whatever the random choices,
\* the durations of the planned events sum (in floats, from the left) to
\* exactly d, and no event has a duration <= 0.
C1_DurationsSumToTotal ==
    /\ \A k \in 1..Len(melody_sequence) :
          FGt(melody_sequence[k].duration, FZero)
    /\ (Planned /\ FGt(total_duration_seconds, FZero))
          => DurationSum(melody_sequence) = total_duration_seconds

\* a plan of several events whose last one was clipped to the remainder
C1_Witness ==
    /\ pc = "mix"
    /\ Len(melody_sequence) >= 3
    /\ ~IsRhythm(melody_sequence[Len(melody_sequence)].duration)

\* C2: while mixing, chord_index is the number of bar boundaries in
\* (0, cursor] modulo the number of chords, so the event that starts at the
\* cursor gets the chord of its bar; and when every event mixed so far
\* lasted one beat, chord_index is the number of groups of four events.
C2_ChordPerBar ==
    pc = "mix" =>
        LET bar == BarSamples(quarter_note_duration)
            n   == Len(LookupMood(mood_key).mood.chords)
        IN  /\ chord_index = (current_pos_samples \div bar) % n
            /\ (\A k \in 1..(item - 1) :
                   melody_sequence[k].duration = quarter_note_duration)
                  => chord_index = ((item - 1) \div 4) % n

\* four one-beat events have been mixed and the chord has advanced once
C2_Witness ==
    /\ pc = "mix"
    /\ item = 5
    /\ \A k \in 1..4 : melody_sequence[k].duration = quarter_note_duration
    /\ chord_index = 1

\* C3: with a mood that is not in the catalog generate_music fails with a
\* KeyError and nothing is ever written.
C3_UnknownMoodWritesNothing ==
    mood_key \notin DOMAIN MOODS =>
        /\ pc \in {"setup", "raised"}
        /\ pc = "raised" => error = "KeyError"
        /\ ~written
        /\ scaled_data = <<>>

C3_Witness == pc = "raised" /\ mood_key = "polka" /\ error = "KeyError"

\* C4: a total <= 0, or a mixed buffer whose peak is 0, is not an error:
\* no exception is raised, normalization is skipped and an all-zero buffer
\* of the requested length is produced.
C4_EmptyTrackIsNotAnError ==
    (/\ mood_key \in DOMAIN MOODS
     /\ pc \in {"raised", "done"}
     /\ \/ ~FGt(total_duration_seconds, FZero)
        \/ /\ WholeTrack
           /\ item > Len(melody_sequence)
           /\ \A j \in 1..Len(final_track_data) : final_track_data[j] = 0)
    => /\ pc = "done"
       /\ track_den = AMP.mix
       /\ Len(scaled_data) = Len(final_track_data)
       /\ \A j \in 1..Len(scaled_data) : scaled_data[j] = 0

\* C7: in a render that reaches the sink every quantized sample is the
\* sample times 32767, truncated, and lies in [-32768, 32767]: the
\* conversion to int16 does not wrap.
C7_QuantizedInRange ==
    (pc \in {"write", "done"} /\ WholeTrack) =>
        \A j \in 1..Len(scaled_data) :
            /\ scaled_data[j] = Scaled(final_track_data[j], track_den)
            /\ scaled_data[j] \in -32768..32767

\* a track of several samples was written and its peak sample is 32767
C7_Witness ==
    /\ pc = "done"
    /\ written
    /\ Len(scaled_data) >= 2
    /\ \E j \in 1..Len(scaled_data) : scaled_data[j] = 32767

\* C8: after normalization the peak absolute sample is exactly 1.0, or the
\* buffer is all zero and was left as it was.
C8_NormalizedPeak ==
    (pc \in {"quantize", "write", "done"} /\ WholeTrack) =>
        \/ Peak(final_track_data) = track_den
        \/ /\ \A j \in 1..Len(final_track_data) : final_track_data[j] = 0
           /\ track_den = AMP.mix

\* a buffer with a nonzero peak was divided by it
C8_Witness ==
    /\ pc = "quantize"
    /\ WholeTrack
    /\ track_den # AMP.mix
    /\ Peak(final_track_data) = track_den

\* C9: the planning loop terminates: every iteration moves current_time
\* strictly forward, and the loop is left.
C9_PlanningTerminates ==
    /\ [][PlanStep => FLt(current_time, current_time')]_vars
    /\ (pc = "plan") ~> (pc # "plan")

\* the loop was left after several iterations
C9_Witness == pc = "mix" /\ item = 1 /\ Len(melody_sequence) >= 4

\* C10: at every event of the mixing loop the cursor plus the event's
\* sample count is at most the length of the buffer, and no addition fails.
C10_EventsFitBuffer ==
    /\ (pc = "mix" /\ item <= Len(melody_sequence)) =>
          current_pos_samples
            + NumSamples(melody_sequence[item].duration, sample_rate) <= track_len
    /\ ~(pc = "raised" /\ track_len > 0)

(***************************************************************************)
(* Properties of create_waveform.                                          *)
(***************************************************************************)
Product == FScale(wf_args.duration, wf_args.sample_rate, 1)

RegularCall ==
    /\ pc = "returned"
    /\ wf_args.frequency > 0
    /\ FGt(wf_args.duration, FZero)

\* C5 as claimed: for f > 0, d > 0 and r > 0 the returned buffer has
\* length round(r * d).
C5_LengthIsRound ==
    RegularCall => /\ ~wf_result.raised
                   /\ wf_result.len = FRoundInt(Product)

\* C5 as amended: the length is r * d truncated, the largest integer that
\* is not above r * d.
C5_LengthIsTruncation ==
    RegularCall => /\ ~wf_result.raised
                   /\ ~FGt(FInt(wf_result.len), Product)
                   /\ FGt(FInt(wf_result.len + 1), Product)
                   /\ Len(wf_result.data) = Min(wf_result.len, MaxSamples)

\* a call whose r * d has a fractional part of at least one half
C5_Witness ==
    /\ RegularCall
    /\ wf_result.len >= 1
    /\ wf_result.len # FRoundInt(Product)

\* C6: with a frequency <= 0 or a duration <= 0 create_waveform does not
\* raise and returns an empty or all-zero buffer.
C6_DegenerateInputIsSilent ==
    (/\ pc = "returned"
     /\ wf_args.frequency <= 0 \/ ~FGt(wf_args.duration, FZero))
    => /\ ~wf_result.raised
       /\ \A j \in 1..Len(wf_result.data) : wf_result.data[j] = 0

====
